---- MODULE Spec2Model ----
(***************************************************************************)
(* Read-through caching layer of simplefastapiapp (src/utils/cache.py) and *)
(* its only user, ItemService (src/service/item.py).                       *)
(*                                                                         *)
(* Text is modelled as a sequence of tokens; ":" is a token of its own, so *)
(* that joining key parts and glob matching act on the joined text and not *)
(* on the list of parts.  Python values and JSON documents are records of  *)
(* one common layout (shape, of, data, status, message).                   *)
(***************************************************************************)
EXTENDS Integers, Sequences, FiniteSets, TLC

VARIABLES
    store,      \* Redis database: key -> [val, exp, at, src]
    now,        \* backend clock, seconds
    redis_up,   \* whether backend calls succeed
    db,         \* the item row of the relational store: [exists, ver, at]
    task,       \* per request-handling task: position and locals of its call
    pure        \* a direct call of a pure function: its inputs and its result

vars == <<store, now, redis_up, db, task, pure>>

----------------------------------------------------------------------------
(* Bounds of the model *)

MaxTime == 300
TickStep == 150
MaxVer == 2
OtherTtl == 60

(* Program constants *)

REDIS_TTL == 300
ITEM_TTL == 300
NoneTtl == -1

Tasks == {"t1"}

----------------------------------------------------------------------------
(* Text *)

Colon == ":"
Star == "*"

\* ":".join(parts)
RECURSIVE Join(_)
Join(parts) ==
    IF Len(parts) = 0 THEN <<>>
    ELSE IF Len(parts) = 1 THEN parts[1]
    ELSE parts[1] \o <<Colon>> \o Join(Tail(parts))

\* Redis glob match of a key against a pattern; "*" matches any run of text
RECURSIVE GlobMatch(_, _)
GlobMatch(p, k) ==
    IF p = <<>> THEN k = <<>>
    ELSE IF Head(p) = Star
         THEN GlobMatch(Tail(p), k) \/ (k # <<>> /\ GlobMatch(p, Tail(k)))
         ELSE k # <<>> /\ Head(k) = Head(p) /\ GlobMatch(Tail(p), Tail(k))

----------------------------------------------------------------------------
(* Python values and JSON documents *)

PyNone == "<None>"
NoData == [id |-> 0, ts |-> "null"]

Val(shape, of, data, status, message) ==
    [shape |-> shape, of |-> of, data |-> data, status |-> status, message |-> message]

NoVal == Val("-", "-", NoData, "-", "-")

\* StandardResponse(data=..., status=..., message=...) as the service builds it
Response(data, status, message) == Val("StandardResponse", "-", data, status, message)

\* hasattr(result, 'to_dict')
has_to_dict(v) == v.shape \in {"StandardResponse", "Item"}

\* StandardResponse.to_dict / Item.to_dict: a dict of the object's fields; the
\* Item's dict holds the created_at / updated_at datetime objects (ts = "native")
to_dict(v) ==
    IF v.shape = "StandardResponse"
    THEN Val("dict", "response", v.data, v.status, v.message)
    ELSE Val("dict", "item", v.data, "-", "-")

\* str(v): the text of a value; a str is its own text
PyStr(v) ==
    IF v.shape = "str" THEN v
    ELSE Val("str", v.shape, v.data, v.status, v.message)

JsonShapes == {"dict", "list", "tuple", "str", "int", "bool", "None"}

\* whether json.dumps(v) without a default hook accepts v
JsonNative(v) == v.shape \in JsonShapes /\ v.data.ts # "native"

JsonType(shape) ==
    CASE shape = "dict" -> "object"
      [] shape \in {"list", "tuple"} -> "array"
      [] shape = "str" -> "string"
      [] shape = "int" -> "number"
      [] shape = "bool" -> "boolean"
      [] OTHER -> "null"

PyType(jtype) ==
    CASE jtype = "object" -> "dict"
      [] jtype = "array" -> "list"
      [] jtype = "string" -> "str"
      [] jtype = "number" -> "int"
      [] jtype = "boolean" -> "bool"
      [] OTHER -> "None"

\* json.dumps(v) of a value it accepts
json_dumps(v) == [v EXCEPT !.shape = JsonType(v.shape)]

\* json.dumps(v, default=str): sub-values json cannot encode become their text
json_dumps_default_str(v) ==
    IF v.shape \in JsonShapes
    THEN json_dumps([v EXCEPT !.data.ts = IF @ = "native" THEN "text" ELSE @])
    ELSE json_dumps(PyStr(v))

JsonDocShapes == {"object", "array", "string", "number", "boolean", "null"}

\* json.loads(bytes): [ok, val]; bytes that are no JSON document raise
json_loads(b) ==
    IF b.shape \in JsonDocShapes
    THEN [ok |-> TRUE, val |-> [b EXCEPT !.shape = PyType(b.shape)]]
    ELSE [ok |-> FALSE, val |-> NoVal]

\* the encoding the wrapper stores for a producer result
Serialize(result) ==
    IF has_to_dict(result)
    THEN IF JsonNative(to_dict(result))
         THEN json_dumps(to_dict(result))
         ELSE json_dumps(PyStr(result))
    ELSE json_dumps_default_str(result)

\* pydantic validation of StandardResponse(data=, status=, message=) with all three
\* fields passed: message and status are declared str, None is no str
StandardResponse(data, status, message) ==
    IF message # PyNone /\ status # PyNone
    THEN [ok |-> TRUE, val |-> Response(data, status, message)]
    ELSE [ok |-> FALSE, val |-> NoVal]

\* StandardResponse(**data) for a parsed dict: the dict's keys are the keyword
\* arguments; keys that are no field are ignored and absent fields keep their
\* (unvalidated) defaults
StandardResponseFromDict(d) ==
    IF d.of = "response"
    THEN StandardResponse(d.data, d.status, d.message)
    ELSE [ok |-> TRUE, val |-> Response(NoData, "success", PyNone)]

\* {"response": data} and {"cached_value": data}
Wrap(tag, v) == [id |-> v.data.id, ts |-> tag]

\* the hit path: parse and rebuild the value to return; [ok, val]
Decode(annot, cached) ==
    LET parsed == json_loads(cached)
        data == parsed.val
    IN  IF ~parsed.ok THEN parsed
        ELSE IF annot = "StandardResponse"
        THEN IF data.shape = "dict" THEN StandardResponseFromDict(data)
             ELSE IF data.shape = "str"
             THEN StandardResponse(Wrap("response", data), "success", PyNone)
             ELSE StandardResponse(Wrap("cached_value", data), "success", PyNone)
        ELSE [ok |-> TRUE, val |-> data]

----------------------------------------------------------------------------
(* Key Builder *)

Scalar(a) == a.t \in {"str", "int", "float", "bool"}

Self == [t |-> "object", s |-> <<"self">>]
StrArg(tok) == [t |-> "str", s |-> <<tok>>]

\* names of keyword arguments, in lexicographic order
KwNames == <<"item_id", "lang">>
Rank(k) == CHOOSE i \in 1..Len(KwNames) : KwNames[i] = k

RECURSIVE InsertSorted(_, _)
InsertSorted(kv, sorted) ==
    IF sorted = <<>> THEN <<kv>>
    ELSE IF Rank(kv.k) <= Rank(Head(sorted).k) THEN <<kv>> \o sorted
    ELSE <<Head(sorted)>> \o InsertSorted(kv, Tail(sorted))

\* fault: the named arguments are taken in the order the caller wrote them
SortedItems_as_passed(kwargs) == kwargs

\* sorted(kwargs.items())
RECURSIVE SortedItems(_)
SortedItems(kwargs) ==
    IF kwargs = <<>> THEN <<>>
    ELSE InsertSorted(Head(kwargs), SortedItems(Tail(kwargs)))

\* fault: every positional argument contributes its text, scalar or not
RECURSIVE PositionalParts_all(_)
PositionalParts_all(args) ==
    IF args = <<>> THEN <<>>
    ELSE <<Head(args).s>> \o PositionalParts_all(Tail(args))

RECURSIVE PositionalParts(_)
PositionalParts(args) ==
    IF args = <<>> THEN <<>>
    ELSE (IF Scalar(Head(args)) THEN <<Head(args).s>> ELSE <<>>)
         \o PositionalParts(Tail(args))

\* fault: a named argument contributes its value without its name
RECURSIVE KeywordParts_value_only(_)
KeywordParts_value_only(items) ==
    IF items = <<>> THEN <<>>
    ELSE (IF Scalar(Head(items).v) THEN <<Head(items).v.s>> ELSE <<>>)
         \o KeywordParts_value_only(Tail(items))

RECURSIVE KeywordParts(_)
KeywordParts(items) ==
    IF items = <<>> THEN <<>>
    ELSE (IF Scalar(Head(items).v)
          THEN <<(<<Head(items).k, Colon>> \o Head(items).v.s)>>
          ELSE <<>>)
         \o KeywordParts(Tail(items))

create_cache_key(prefix, args, kwargs) ==
    Join(<<prefix>> \o PositionalParts(args) \o KeywordParts(SortedItems(kwargs)))

----------------------------------------------------------------------------
(* The cache decorator and the functions it decorates *)

NoPrefix == <<>>

\* fault: a ttl of 0 is passed on to the backend as it is
EffectiveTtl_as_given(ttl) == IF ttl = NoneTtl THEN REDIS_TTL ELSE ttl

\* ttl = ttl or redis_settings.REDIS_TTL
EffectiveTtl(ttl) == IF ttl = NoneTtl \/ ttl = 0 THEN REDIS_TTL ELSE ttl

\* func_prefix = prefix or func.__qualname__
EffectivePrefix(prefix, qualname) == IF prefix = NoPrefix THEN qualname ELSE prefix

\* ItemService.get_item as decorated: @cache(ttl=300, prefix="item"), -> StandardResponse
get_item ==
    [name |-> "get_item", prefix |-> <<"item">>, qualname |-> <<"ItemService.get_item">>,
     ttl |-> ITEM_TTL, annot |-> "StandardResponse", returns |-> "item_response",
     forms |-> {[args |-> <<Self, StrArg("42")>>, kwargs |-> <<>>],
                [args |-> <<Self, StrArg("7")>>, kwargs |-> <<>>]}]

\* further uses the decorator admits: a prefix extending "item", a call with no
\* scalar argument, a function with another return annotation, ttl left out or 0
get_detail ==
    [name |-> "get_detail", prefix |-> <<"item", Colon, "detail">>,
     qualname |-> <<"ItemService.get_detail">>,
     ttl |-> OtherTtl, annot |-> "StandardResponse", returns |-> "plain_response",
     forms |-> {[args |-> <<Self, StrArg("42")>>, kwargs |-> <<>>]}]

first_item ==
    [name |-> "first_item", prefix |-> <<"item">>, qualname |-> <<"ItemService.first_item">>,
     ttl |-> NoneTtl, annot |-> "Item", returns |-> "entity",
     forms |-> {[args |-> <<Self>>, kwargs |-> <<>>]}]

get_user ==
    [name |-> "get_user", prefix |-> <<"user">>, qualname |-> <<"get_user">>,
     ttl |-> 0, annot |-> "dict", returns |-> "dict",
     forms |-> {[args |-> <<StrArg("42")>>, kwargs |-> <<>>]}]

\* a function on get_item's prefix and argument whose result is a plain dict
get_summary ==
    [name |-> "get_summary", prefix |-> <<"item">>, qualname |-> <<"ItemService.get_summary">>,
     ttl |-> OtherTtl, annot |-> "dict", returns |-> "dict",
     forms |-> {[args |-> <<Self, StrArg("42")>>, kwargs |-> <<>>]}]

Funcs == {get_item, get_detail, first_item, get_user}

Fn(name) == CHOOSE f \in Funcs \cup {get_summary} : f.name = name

KeyOf(f, form) ==
    create_cache_key(EffectivePrefix(f.prefix, f.qualname), form.args, form.kwargs)

\* the item a call reads: its scalar argument, else the one row
ItemOf(form) ==
    LET parts == PositionalParts(form.args)
    IN  IF parts = <<>> THEN "42" ELSE parts[1][1]

----------------------------------------------------------------------------
(* The producers: the decorated function bodies *)

\* Item.to_dict() of the row as stored: its JSON-native fields at version ver and
\* the created_at / updated_at datetime objects
ItemDict(ver) == [id |-> ver, ts |-> "native"]
PlainDict(ver) == [id |-> ver, ts |-> "plain"]

\* the value the function returns when the repository finds the row
Returned(f, ver) ==
    CASE f.returns = "item_response" -> Response(ItemDict(ver), "success", "found")
      [] f.returns = "plain_response" -> Response(PlainDict(ver), "success", "found")
      [] f.returns = "entity" -> Val("Item", "-", ItemDict(ver), "-", "-")
      [] OTHER -> Val("dict", "item", PlainDict(ver), "-", "-")

Outcome(kind, val, err) == [kind |-> kind, val |-> val, err |-> err]
NoOutcome == Outcome("none", NoVal, "-")
ReturnOf(val) == Outcome("return", val, "-")
RaiseOf(err) == Outcome("raise", NoVal, err)

\* item_id = int(id): the number an identifier string denotes
IntOf(id) ==
    CASE id \in {"42", "042"} -> 42
      [] id = "7" -> 7

\* the id of the one row of the items table
RowId == 42

\* whether the repository finds the row for this id
Found(row, item) == IntOf(item) = RowId /\ row.exists

\* outcomes of one producer invocation: the row as it is now, not-found when it
\* is absent, or the repository's DatabaseException on a database error
ProducerOutcomes(f, item, row) ==
    {RaiseOf("DatabaseException")}
    \cup (IF Found(row, item)
          THEN {ReturnOf(Returned(f, row.ver))}
          ELSE {RaiseOf("NotFoundException")})

----------------------------------------------------------------------------
(* Tasks *)

IdleTask ==
    [pc |-> "idle", op |-> "-", f |-> "-", item |-> "-", key |-> <<>>, ttl |-> 0,
     result |-> NoVal, pattern |-> <<>>, keys |-> {}, calls |-> <<>>,
     outcome |-> NoOutcome]

CallRec(call, key, ttl, val, src, res) ==
    [call |-> call, key |-> key, ttl |-> ttl, val |-> val, src |-> src, res |-> res]

\* errors a backend call raises: redis.RedisError or any other Exception
BackendErrors == {"RedisError", "Exception"}

\* what a backend call does now: succeed, or raise one of the errors
BackendResults == IF redis_up THEN {"ok"} ELSE BackendErrors

\* entries the backend still holds at time t
Live(s, t) == [k \in {x \in DOMAIN s : s[x].exp > t} |-> s[k]]

\* no pure function is being called directly
NoCall == [fn |-> "-"]

Init ==
    /\ store = <<>>
    /\ now = 0
    /\ redis_up = TRUE
    /\ db = [exists |-> TRUE, ver |-> 1, at |-> 0]
    /\ task = [t \in Tasks |-> IdleTask]
    /\ pure = NoCall

----------------------------------------------------------------------------
(* async_wrapper: one execute *)

\* the call: cache_key = create_cache_key(func_prefix, *args, **kwargs)
Execute(t, f, form) ==
    /\ task[t].pc = "idle"
    /\ task' = [task EXCEPT ![t] =
                  [IdleTask EXCEPT !.pc = "get", !.op = "execute", !.f = f.name,
                                   !.item = ItemOf(form),
                                   !.key = KeyOf(f, form),
                                   !.ttl = EffectiveTtl(f.ttl)]]
    /\ UNCHANGED <<store, now, redis_up, db, pure>>

\* fault: a failure of the backend get reaches the caller instead of being caught
GetStep_propagates(me, s, r) ==
    LET present == me.key \in DOMAIN s
        cached == IF present THEN s[me.key].val ELSE NoVal
        src == IF present THEN s[me.key].src ELSE NoVal
        dec == Decode(Fn(me.f).annot, cached)
    IN  IF r # "ok"
        THEN [me EXCEPT !.pc = "done",
                        !.calls = Append(@, CallRec("get", me.key, 0, NoVal, NoVal, r)),
                        !.outcome = RaiseOf(r)]
        ELSE IF ~(present /\ cached.shape # "empty")
        THEN [me EXCEPT !.pc = "produce",
                        !.calls = Append(@, CallRec("get", me.key, 0, NoVal, NoVal, "miss"))]
        ELSE IF dec.ok
        THEN [me EXCEPT !.pc = "done",
                        !.calls = Append(@, CallRec("get", me.key, 0, cached, src, "hit")),
                        !.outcome = ReturnOf(dec.val)]
        ELSE [me EXCEPT !.pc = "fallback",
                        !.calls = Append(@, CallRec("get", me.key, 0, cached, src, "hit"))]

\* fault: a failure of the backend get continues on the miss path, set included
GetStep_error_as_miss(me, s, r) ==
    LET present == me.key \in DOMAIN s
        cached == IF present THEN s[me.key].val ELSE NoVal
        src == IF present THEN s[me.key].src ELSE NoVal
        dec == Decode(Fn(me.f).annot, cached)
    IN  IF r # "ok"
        THEN [me EXCEPT !.pc = "produce",
                        !.calls = Append(@, CallRec("get", me.key, 0, NoVal, NoVal, r))]
        ELSE IF ~(present /\ cached.shape # "empty")
        THEN [me EXCEPT !.pc = "produce",
                        !.calls = Append(@, CallRec("get", me.key, 0, NoVal, NoVal, "miss"))]
        ELSE IF dec.ok
        THEN [me EXCEPT !.pc = "done",
                        !.calls = Append(@, CallRec("get", me.key, 0, cached, src, "hit")),
                        !.outcome = ReturnOf(dec.val)]
        ELSE [me EXCEPT !.pc = "fallback",
                        !.calls = Append(@, CallRec("get", me.key, 0, cached, src, "hit"))]

\* fault: a stored payload the hit path cannot decode is raised to the caller
GetStep_decode_raises(me, s, r) ==
    LET present == me.key \in DOMAIN s
        cached == IF present THEN s[me.key].val ELSE NoVal
        src == IF present THEN s[me.key].src ELSE NoVal
        dec == Decode(Fn(me.f).annot, cached)
    IN  IF r # "ok"
        THEN [me EXCEPT !.pc = "fallback",
                        !.calls = Append(@, CallRec("get", me.key, 0, NoVal, NoVal, r))]
        ELSE IF ~(present /\ cached.shape # "empty")
        THEN [me EXCEPT !.pc = "produce",
                        !.calls = Append(@, CallRec("get", me.key, 0, NoVal, NoVal, "miss"))]
        ELSE IF dec.ok
        THEN [me EXCEPT !.pc = "done",
                        !.calls = Append(@, CallRec("get", me.key, 0, cached, src, "hit")),
                        !.outcome = ReturnOf(dec.val)]
        ELSE [me EXCEPT !.pc = "done",
                        !.calls = Append(@, CallRec("get", me.key, 0, cached, src, "hit")),
                        !.outcome = RaiseOf("ValueError")]

\* fault: the hit test is applied to the decoded value, so null, 0, false, ""
\* and [] count as a miss
GetStep_tests_decoded(me, s, r) ==
    LET present == me.key \in DOMAIN s
        cached == IF present THEN s[me.key].val ELSE NoVal
        src == IF present THEN s[me.key].src ELSE NoVal
        hit == present /\ cached.shape # "empty"
                       /\ ~(cached.shape = "null" \/ cached.of = "zero")
        dec == Decode(Fn(me.f).annot, cached)
    IN  IF r # "ok"
        THEN [me EXCEPT !.pc = "fallback",
                        !.calls = Append(@, CallRec("get", me.key, 0, NoVal, NoVal, r))]
        ELSE IF ~hit
        THEN [me EXCEPT !.pc = "produce",
                        !.calls = Append(@, CallRec("get", me.key, 0, NoVal, NoVal, "miss"))]
        ELSE IF dec.ok
        THEN [me EXCEPT !.pc = "done",
                        !.calls = Append(@, CallRec("get", me.key, 0, cached, src, "hit")),
                        !.outcome = ReturnOf(dec.val)]
        ELSE [me EXCEPT !.pc = "fallback",
                        !.calls = Append(@, CallRec("get", me.key, 0, cached, src, "hit"))]

\* cached_value = await async_redis_client.get(cache_key) and what follows it
\* without another await: the hit path, or the way to the producer
GetStep(me, s, r) ==
    LET present == me.key \in DOMAIN s
        cached == IF present THEN s[me.key].val ELSE NoVal
        src == IF present THEN s[me.key].src ELSE NoVal
        hit == present /\ cached.shape # "empty"
        dec == Decode(Fn(me.f).annot, cached)
    IN  IF r # "ok"
        THEN [me EXCEPT !.pc = "fallback",
                        !.calls = Append(@, CallRec("get", me.key, 0, NoVal, NoVal, r))]
        ELSE IF ~hit
        THEN [me EXCEPT !.pc = "produce",
                        !.calls = Append(@, CallRec("get", me.key, 0, NoVal, NoVal, "miss"))]
        ELSE IF dec.ok
        THEN [me EXCEPT !.pc = "done",
                        !.calls = Append(@, CallRec("get", me.key, 0, cached, src, "hit")),
                        !.outcome = ReturnOf(dec.val)]
        ELSE [me EXCEPT !.pc = "fallback",
                        !.calls = Append(@, CallRec("get", me.key, 0, cached, src, "hit"))]

\* fault: a hit renews the expiry of the entry it read
Get_refreshing(t) ==
    /\ task[t].pc = "get"
    /\ \E r \in BackendResults :
          /\ task' = [task EXCEPT ![t] = GetStep(task[t], store, r)]
          /\ store' = IF r = "ok" /\ task[t].key \in DOMAIN store
                      THEN [store EXCEPT ![task[t].key].exp = now + task[t].ttl]
                      ELSE store
    /\ UNCHANGED <<now, redis_up, db, pure>>

\* fault: single flight: a get waits while another execute of the same key is
\* between its miss and its set
Get_single_flight(t) ==
    /\ task[t].pc = "get"
    /\ \A u \in DOMAIN task \ {t} :
          ~(task[u].op = "execute" /\ task[u].key = task[t].key
              /\ task[u].pc \in {"produce", "set"})
    /\ \E r \in BackendResults :
          task' = [task EXCEPT ![t] = GetStep(task[t], store, r)]
    /\ UNCHANGED <<store, now, redis_up, db, pure>>

Get(t) ==
    /\ task[t].pc = "get"
    /\ \E r \in BackendResults :
          task' = [task EXCEPT ![t] = GetStep(task[t], store, r)]
    /\ UNCHANGED <<store, now, redis_up, db, pure>>

\* fault: the wrapper goes on to the set whatever the producer did
ProduceStep_caches_failure(me, o) ==
    [me EXCEPT !.pc = "set",
               !.result = o.val,
               !.calls = Append(@, CallRec("producer", <<>>, 0, o.val, NoVal,
                                   IF o.kind = "return" THEN "return" ELSE o.err))]

\* result = await func(*args, **kwargs) inside the try block: a result goes on to
\* be cached, an exception is caught by the wrapper's own except clause
ProduceStep(me, o) ==
    [me EXCEPT !.pc = IF o.kind = "return" THEN "set" ELSE "fallback",
               !.result = o.val,
               !.calls = Append(@, CallRec("producer", <<>>, 0, o.val, NoVal,
                                   IF o.kind = "return" THEN "return" ELSE o.err))]

Produce(t) ==
    /\ task[t].pc = "produce"
    /\ \E o \in ProducerOutcomes(Fn(task[t].f), task[t].item, db) :
          task' = [task EXCEPT ![t] = ProduceStep(task[t], o)]
    /\ UNCHANGED <<store, now, redis_up, db, pure>>

\* serialize, await async_redis_client.setex(cache_key, ttl, serialized), return result
SetStep(me, r) ==
    IF r = "ok"
    THEN [me EXCEPT !.pc = "done",
                    !.calls = Append(@, CallRec("set", me.key, me.ttl,
                                        Serialize(me.result), me.result, "ok")),
                    !.outcome = ReturnOf(me.result)]
    ELSE [me EXCEPT !.pc = "fallback",
                    !.calls = Append(@, CallRec("set", me.key, me.ttl,
                                        Serialize(me.result), me.result, r))]

\* fault: the entry outlives the ttl it was set with
Setex_outlives_ttl(s, key, ttl, val, src) ==
    (key :> [val |-> val, exp |-> now + ttl + MaxTime, at |-> now, src |-> src]) @@ s

\* SETEX: the entry replaces any other under the key and expires ttl seconds on
Setex(s, key, ttl, val, src) ==
    (key :> [val |-> val, exp |-> now + ttl, at |-> now, src |-> src]) @@ s

\* fault: the set replaces the whole contents of the database
Set_replaces_all(t) ==
    /\ task[t].pc = "set"
    /\ \E r \in BackendResults :
          /\ task' = [task EXCEPT ![t] = SetStep(task[t], r)]
          /\ store' = IF r = "ok"
                      THEN Setex(<<>>, task[t].key, task[t].ttl,
                                 Serialize(task[t].result), task[t].result)
                      ELSE store
    /\ UNCHANGED <<now, redis_up, db, pure>>

\* fault: the set is skipped when the row has changed since the producer read it
Set_checks_row(t) ==
    /\ task[t].pc = "set"
    /\ \E r \in BackendResults :
          /\ task' = [task EXCEPT ![t] = SetStep(task[t], r)]
          /\ store' = IF r = "ok" /\ task[t].result.data.id = db.ver
                      THEN Setex(store, task[t].key, task[t].ttl,
                                 Serialize(task[t].result), task[t].result)
                      ELSE store
    /\ UNCHANGED <<now, redis_up, db, pure>>

Set(t) ==
    /\ task[t].pc = "set"
    /\ \E r \in BackendResults :
          /\ task' = [task EXCEPT ![t] = SetStep(task[t], r)]
          /\ store' = IF r = "ok"
                      THEN Setex(store, task[t].key, task[t].ttl,
                                 Serialize(task[t].result), task[t].result)
                      ELSE store
    /\ UNCHANGED <<now, redis_up, db, pure>>

\* the except clauses: return await func(*args, **kwargs)
FallbackStep(me, o) ==
    [me EXCEPT !.pc = "done",
               !.calls = Append(@, CallRec("producer", <<>>, 0, o.val, NoVal,
                                   IF o.kind = "return" THEN "return" ELSE o.err)),
               !.outcome = o]

Fallback(t) ==
    /\ task[t].pc = "fallback"
    /\ \E o \in ProducerOutcomes(Fn(task[t].f), task[t].item, db) :
          task' = [task EXCEPT ![t] = FallbackStep(task[t], o)]
    /\ UNCHANGED <<store, now, redis_up, db, pure>>

\* the caller takes the outcome
Return(t) ==
    /\ task[t].pc = "done"
    /\ task' = [task EXCEPT ![t] = IdleTask]
    /\ UNCHANGED <<store, now, redis_up, db, pure>>

----------------------------------------------------------------------------
(* invalidate_cache, called directly or by the service after a mutation *)

Prefixes == {<<"item">>, <<"user">>}

\* the glob handed to KEYS: f"{prefix}:{pattern}"
KeyPattern(prefix, pattern) == prefix \o <<Colon>> \o pattern

Invalidate(t, prefix) ==
    /\ task[t].pc = "idle"
    /\ task' = [task EXCEPT ![t] =
                  [IdleTask EXCEPT !.pc = "keys", !.op = "invalidate",
                                   !.key = prefix,
                                   !.pattern = KeyPattern(prefix, <<Star>>)]]
    /\ UNCHANGED <<store, now, redis_up, db, pure>>

\* what the operation that called invalidate_cache goes on to return
AfterInvalidate(me) ==
    CASE me.op = "update_item" -> ReturnOf(me.result)
      [] me.op = "delete_item" -> RaiseOf("AttributeError")
      [] OTHER -> ReturnOf(NoVal)

\* fault: a failure of the keys call is raised to the caller of invalidate_cache
KeysStep_reports(me, s, r) ==
    LET found == {k \in DOMAIN s : GlobMatch(me.pattern, k)}
    IN  IF r = "ok" /\ found # {}
        THEN [me EXCEPT !.pc = "delete", !.keys = found,
                        !.calls = Append(@, CallRec("keys", me.pattern, 0, NoVal, NoVal, r))]
        ELSE [me EXCEPT !.pc = "done",
                        !.calls = Append(@, CallRec("keys", me.pattern, 0, NoVal, NoVal, r)),
                        !.outcome = IF r = "ok" THEN AfterInvalidate(me) ELSE RaiseOf(r)]

\* keys = await async_redis_client.keys(f"{prefix}:{pattern}"); if keys: ...
KeysStep(me, s, r) ==
    LET found == {k \in DOMAIN s : GlobMatch(me.pattern, k)}
    IN  IF r = "ok" /\ found # {}
        THEN [me EXCEPT !.pc = "delete", !.keys = found,
                        !.calls = Append(@, CallRec("keys", me.pattern, 0, NoVal, NoVal, r))]
        ELSE [me EXCEPT !.pc = "done",
                        !.calls = Append(@, CallRec("keys", me.pattern, 0, NoVal, NoVal, r)),
                        !.outcome = AfterInvalidate(me)]

Keys(t) ==
    /\ task[t].pc = "keys"
    /\ \E r \in BackendResults :
          task' = [task EXCEPT ![t] = KeysStep(task[t], store, r)]
    /\ UNCHANGED <<store, now, redis_up, db, pure>>

\* fault: a failure of the delete is raised to the caller of invalidate_cache
DeleteStep_reports(me, r) ==
    [me EXCEPT !.pc = "done",
               !.calls = Append(@, CallRec("delete", me.pattern, 0, NoVal, NoVal, r)),
               !.outcome = IF r = "ok" THEN AfterInvalidate(me) ELSE RaiseOf(r)]

\* await async_redis_client.delete(*keys); errors are logged, not raised
DeleteStep(me, r) ==
    [me EXCEPT !.pc = "done",
               !.calls = Append(@, CallRec("delete", me.pattern, 0, NoVal, NoVal, r)),
               !.outcome = AfterInvalidate(me)]

\* fault: the delete empties the database
Delete_flushes(t) ==
    /\ task[t].pc = "delete"
    /\ \E r \in BackendResults :
          /\ task' = [task EXCEPT ![t] = DeleteStep(task[t], r)]
          /\ store' = IF r = "ok" THEN <<>> ELSE store
    /\ UNCHANGED <<now, redis_up, db, pure>>

Delete(t) ==
    /\ task[t].pc = "delete"
    /\ \E r \in BackendResults :
          /\ task' = [task EXCEPT ![t] = DeleteStep(task[t], r)]
          /\ store' = IF r = "ok"
                      THEN [k \in DOMAIN store \ task[t].keys |-> store[k]]
                      ELSE store
    /\ UNCHANGED <<now, redis_up, db, pure>>

----------------------------------------------------------------------------
(* ItemService.update_item and delete_item *)

ItemIds == {"42", "7"}

\* fault: update_item invalidates whatever the repository reported
UpdateItem_invalidates_always(t, id) ==
    /\ task[t].pc = "idle"
    /\ \/ /\ Found(db, id)
          /\ db.ver < MaxVer
          /\ db' = [db EXCEPT !.ver = @ + 1, !.at = now]
          /\ task' = [task EXCEPT ![t] =
                  [IdleTask EXCEPT !.pc = "keys", !.op = "update_item", !.item = id,
                       !.key = <<"item">>,
                       !.pattern = KeyPattern(<<"item">>, <<id>>),
                       !.result = Response(ItemDict(db.ver + 1), "success", "updated")]]
       \/ /\ ~Found(db, id)
          /\ db' = db
          /\ task' = [task EXCEPT ![t] =
                  [IdleTask EXCEPT !.pc = "keys", !.op = "update_item", !.item = id,
                       !.key = <<"item">>,
                       !.pattern = KeyPattern(<<"item">>, <<id>>)]]
       \/ /\ db' = db
          /\ task' = [task EXCEPT ![t] =
                  [IdleTask EXCEPT !.pc = "done", !.op = "update_item", !.item = id,
                       !.outcome = RaiseOf("DatabaseException")]]
    /\ UNCHANGED <<store, now, redis_up, pure>>

\* result = await self.repo.update_item(item, item_id), then on success
\* await invalidate_cache("item", item_id)
UpdateItem(t, id) ==
    /\ task[t].pc = "idle"
    /\ \/ /\ Found(db, id)
          /\ db.ver < MaxVer
          /\ db' = [db EXCEPT !.ver = @ + 1, !.at = now]
          /\ task' = [task EXCEPT ![t] =
                  [IdleTask EXCEPT !.pc = "keys", !.op = "update_item", !.item = id,
                       !.key = <<"item">>,
                       !.pattern = KeyPattern(<<"item">>, <<id>>),
                       !.result = Response(ItemDict(db.ver + 1), "success", "updated")]]
       \/ /\ ~Found(db, id)
          /\ db' = db
          /\ task' = [task EXCEPT ![t] =
                  [IdleTask EXCEPT !.pc = "done", !.op = "update_item", !.item = id,
                       !.outcome = RaiseOf("NotFoundException")]]
       \/ /\ db' = db
          /\ task' = [task EXCEPT ![t] =
                  [IdleTask EXCEPT !.pc = "done", !.op = "update_item", !.item = id,
                       !.outcome = RaiseOf("DatabaseException")]]
    /\ UNCHANGED <<store, now, redis_up, pure>>

\* result = await self.repo.delete_item(item_id), then on success
\* await invalidate_cache("item", item_id); result.data.to_dict() then fails, as
\* result.data is the id string, or None when the row was not found
DeleteItem(t, id) ==
    /\ task[t].pc = "idle"
    /\ \/ /\ Found(db, id)
          /\ db' = [db EXCEPT !.exists = FALSE, !.at = now]
          /\ task' = [task EXCEPT ![t] =
                  [IdleTask EXCEPT !.pc = "keys", !.op = "delete_item", !.item = id,
                       !.key = <<"item">>,
                       !.pattern = KeyPattern(<<"item">>, <<id>>)]]
       \/ /\ ~Found(db, id)
          /\ db' = db
          /\ task' = [task EXCEPT ![t] =
                  [IdleTask EXCEPT !.pc = "done", !.op = "delete_item", !.item = id,
                       !.outcome = RaiseOf("AttributeError")]]
       \/ /\ db' = db
          /\ task' = [task EXCEPT ![t] =
                  [IdleTask EXCEPT !.pc = "done", !.op = "delete_item", !.item = id,
                       !.outcome = RaiseOf("DatabaseException")]]
    /\ UNCHANGED <<store, now, redis_up, pure>>

----------------------------------------------------------------------------
(* The backend and its clock *)

\* time passes; the backend drops the entries whose expiry has come
Tick ==
    /\ now < MaxTime
    /\ now' = now + TickStep
    /\ store' = Live(store, now')
    /\ UNCHANGED <<redis_up, db, task, pure>>

BackendDown ==
    /\ redis_up
    /\ redis_up' = FALSE
    /\ UNCHANGED <<store, now, db, task, pure>>

BackendUp ==
    /\ ~redis_up
    /\ redis_up' = TRUE
    /\ UNCHANGED <<store, now, db, task, pure>>

Next ==
    \/ \E t \in Tasks, f \in Funcs : \E form \in f.forms : Execute(t, f, form)
    \/ \E t \in Tasks : Get(t)
    \/ \E t \in Tasks : Produce(t)
    \/ \E t \in Tasks : Set(t)
    \/ \E t \in Tasks : Fallback(t)
    \/ \E t \in Tasks : Return(t)
    \/ \E t \in Tasks, p \in Prefixes : Invalidate(t, p)
    \/ \E t \in Tasks : Keys(t)
    \/ \E t \in Tasks : Delete(t)
    \/ \E t \in Tasks, id \in ItemIds : UpdateItem(t, id)
    \/ \E t \in Tasks, id \in ItemIds : DeleteItem(t, id)
    \/ Tick
    \/ BackendDown
    \/ BackendUp

Spec == Init /\ [][Next]_vars

----------------------------------------------------------------------------
(* Executes over a database that holds payloads the wrapper did not write *)

\* bytes another writer of the same Redis database left under a key: bytes that
\* are no JSON document, empty bytes, JSON documents of each type, and the
\* documents null, 0, false, "" and [] (of = "zero"), whose value Python counts
\* as false
Payload(shape, of) == Val(shape, of, PlainDict(1), "-", "-")
ForeignPayloads ==
    {Payload("garbage", "-"), Payload("empty", "-"), Payload("number", "-"),
     Payload("string", "-"), Payload("array", "-"), Payload("object", "other"),
     Payload("null", "-"), Payload("number", "zero"), Payload("boolean", "zero"),
     Payload("string", "zero"), Payload("array", "zero")}

\* the keys the decorated functions read
FuncKeys == UNION {{KeyOf(f, form) : form \in f.forms} : f \in Funcs}

InitStored ==
    /\ \E k \in FuncKeys, b \in ForeignPayloads :
          store = (k :> [val |-> b, exp |-> MaxTime + REDIS_TTL, at |-> 0, src |-> NoVal])
    /\ now = 0
    /\ redis_up = TRUE
    /\ db = [exists |-> TRUE, ver |-> 1, at |-> 0]
    /\ task = [t \in Tasks |-> IdleTask]
    /\ pure = NoCall

NextStored ==
    \/ \E t \in Tasks, f \in Funcs : \E form \in f.forms : Execute(t, f, form)
    \/ \E t \in Tasks : Get(t)
    \/ \E t \in Tasks : Produce(t)
    \/ \E t \in Tasks : Set(t)
    \/ \E t \in Tasks : Fallback(t)
    \/ \E t \in Tasks : Return(t)
    \/ BackendDown
    \/ BackendUp

SpecStored == InitStored /\ [][NextStored]_vars

----------------------------------------------------------------------------
(* Two request tasks on item 42: reads of its key and an update, interleaved at
   their await points *)

ConcTasks == {"t1", "t2"}
ConcFuncs == {get_item, get_summary}
ConcItem == "42"

InitConc ==
    /\ store = <<>>
    /\ now = 0
    /\ redis_up = TRUE
    /\ db = [exists |-> TRUE, ver |-> 1, at |-> 0]
    /\ task = [t \in ConcTasks |-> IdleTask]
    /\ pure = NoCall

NextConc ==
    \/ \E t \in ConcTasks, f \in ConcFuncs :
          \E form \in {x \in f.forms : ItemOf(x) = ConcItem} : Execute(t, f, form)
    \/ \E t \in ConcTasks : Get(t)
    \/ \E t \in ConcTasks : Produce(t)
    \/ \E t \in ConcTasks : Set(t)
    \/ \E t \in ConcTasks : Fallback(t)
    \/ \E t \in ConcTasks : Return(t)
    \/ \E t \in ConcTasks : UpdateItem(t, ConcItem)
    \/ \E t \in ConcTasks : Keys(t)
    \/ \E t \in ConcTasks : Delete(t)
    \/ Tick
    \/ BackendDown
    \/ BackendUp

SpecConc == InitConc /\ [][NextConc]_vars

----------------------------------------------------------------------------
(* Direct calls of create_cache_key *)

MaxArgs == 2

IntArg(tok) == [t |-> "int", s |-> <<tok>>]
ListArg == [t |-> "list", s |-> <<"[42]">>]

\* argument values: objects and containers, and scalars; str(42) and "42" are
\* the same text
ArgValues == {Self, ListArg, StrArg("42"), IntArg("42"), StrArg("detail")}
KwValues == {StrArg("42"), ListArg}
KeyPrefixes == {<<"item">>, <<"item", Colon, "detail">>}

\* *args: up to MaxArgs positional arguments
KeyArgs == UNION {[1..n -> ArgValues] : n \in 0..MaxArgs}

\* **kwargs: named arguments with distinct names, in the order the caller wrote them
KeyKwargs ==
    {<<>>}
    \cup {<<[k |-> KwNames[i], v |-> v]>> : i \in 1..Len(KwNames), v \in KwValues}
    \cup UNION {{<<[k |-> KwNames[ij[1]], v |-> v], [k |-> KwNames[ij[2]], v |-> w]>> :
                     v \in KwValues, w \in KwValues} :
                  ij \in {x \in (1..Len(KwNames)) \X (1..Len(KwNames)) : x[1] # x[2]}}

KeyCall(prefix, args, kwargs, key, done) ==
    [fn |-> "create_cache_key", prefix |-> prefix, args |-> args, kwargs |-> kwargs,
     key |-> key, done |-> done]

InitKey ==
    /\ store = <<>>
    /\ now = 0
    /\ redis_up = TRUE
    /\ db = [exists |-> TRUE, ver |-> 1, at |-> 0]
    /\ task = [t \in Tasks |-> IdleTask]
    /\ \E p \in KeyPrefixes, a \in KeyArgs, kw \in KeyKwargs :
          pure = KeyCall(p, a, kw, <<>>, FALSE)

\* the call returns the key
BuildKey ==
    /\ ~pure.done
    /\ pure' = [pure EXCEPT !.key = create_cache_key(pure.prefix, pure.args, pure.kwargs),
                             !.done = TRUE]
    /\ UNCHANGED <<store, now, redis_up, db, task>>

NextKey == BuildKey

SpecKey == InitKey /\ [][NextKey]_vars

----------------------------------------------------------------------------
(* The encoding of a producer result and the decoding of what was stored *)

\* results a decorated function may return, for each version of the row:
\* responses with and without a message and with datetime fields, entities,
\* dicts, containers and scalars
CodecResults ==
    UNION {{Response(PlainDict(v), "success", "found"),
            Response(PlainDict(v), "success", PyNone),
            Response(ItemDict(v), "success", "found"),
            Val("Item", "-", ItemDict(v), "-", "-"),
            Val("Item", "-", PlainDict(v), "-", "-"),
            Val("dict", "item", PlainDict(v), "-", "-"),
            Val("dict", "item", ItemDict(v), "-", "-"),
            Val("list", "-", PlainDict(v), "-", "-"),
            Val("tuple", "-", PlainDict(v), "-", "-"),
            Val("str", "-", PlainDict(v), "-", "-"),
            Val("int", "-", PlainDict(v), "-", "-")} : v \in 1..MaxVer}

\* func.__annotations__.get('return').__name__, "-" when there is none
CodecAnnots == {"StandardResponse", "Item", "dict", "-"}

NoDecoded == [ok |-> FALSE, val |-> NoVal]

CodecCall(annot, result, stored, decoded, step) ==
    [fn |-> "codec", annot |-> annot, result |-> result, stored |-> stored,
     decoded |-> decoded, step |-> step]

InitCodec ==
    /\ store = <<>>
    /\ now = 0
    /\ redis_up = TRUE
    /\ db = [exists |-> TRUE, ver |-> 1, at |-> 0]
    /\ task = [t \in Tasks |-> IdleTask]
    /\ \E a \in CodecAnnots, r \in CodecResults :
          pure = CodecCall(a, r, NoVal, NoDecoded, "result")

\* the miss path's encoding of the result
Encode ==
    /\ pure.step = "result"
    /\ pure' = [pure EXCEPT !.stored = Serialize(pure.result), !.step = "stored"]
    /\ UNCHANGED <<store, now, redis_up, db, task>>

\* the hit path's decoding of the stored bytes
DecodeStored ==
    /\ pure.step = "stored"
    /\ pure' = [pure EXCEPT !.decoded = Decode(pure.annot, pure.stored), !.step = "decoded"]
    /\ UNCHANGED <<store, now, redis_up, db, task>>

NextCodec == Encode \/ DecodeStored

SpecCodec == InitCodec /\ [][NextCodec]_vars

----------------------------------------------------------------------------
(* sync_wrapper and async_wrapper run on the same inputs *)

\* what one run of a wrapper did: its calls in order, the database it left, and
\* what it returned or raised
Run(calls, left, outcome) == [calls |-> calls, left |-> left, outcome |-> outcome]
NoRun == Run(<<>>, <<>>, NoOutcome)

\* fault: the except clauses of sync_wrapper raise the error they caught
sync_wrapper_reraises(f, form, s, rg, rs, o1, o2) ==
    LET cache_key == KeyOf(f, form)
        ttl == EffectiveTtl(f.ttl)
        present == cache_key \in DOMAIN s
        cached_value == IF present THEN s[cache_key].val ELSE NoVal
        src == IF present THEN s[cache_key].src ELSE NoVal
        data == Decode(f.annot, cached_value)
        serialized == Serialize(o1.val)
        get(val, from, res) == CallRec("get", cache_key, 0, val, from, res)
        func(o) == CallRec("producer", <<>>, 0, o.val, NoVal,
                           IF o.kind = "return" THEN "return" ELSE o.err)
        setex(res) == CallRec("set", cache_key, ttl, serialized, o1.val, res)
    IN  IF rg # "ok"
        THEN Run(<<get(NoVal, NoVal, rg)>>, s, RaiseOf(rg))
        ELSE IF present /\ cached_value.shape # "empty"
        THEN IF data.ok
             THEN Run(<<get(cached_value, src, "hit")>>, s, ReturnOf(data.val))
             ELSE Run(<<get(cached_value, src, "hit")>>, s, RaiseOf("Exception"))
        ELSE IF o1.kind # "return"
        THEN Run(<<get(NoVal, NoVal, "miss"), func(o1)>>, s, o1)
        ELSE IF rs = "ok"
        THEN Run(<<get(NoVal, NoVal, "miss"), func(o1), setex(rs)>>,
                 Setex(s, cache_key, ttl, serialized, o1.val), o1)
        ELSE Run(<<get(NoVal, NoVal, "miss"), func(o1), setex(rs)>>, s, RaiseOf(rs))

\* sync_wrapper from its call to its return: rg and rs are what the get and the
\* setex do, o1 and o2 what the first and the second call of func do
sync_wrapper(f, form, s, rg, rs, o1, o2) ==
    LET cache_key == KeyOf(f, form)
        ttl == EffectiveTtl(f.ttl)
        present == cache_key \in DOMAIN s
        cached_value == IF present THEN s[cache_key].val ELSE NoVal
        src == IF present THEN s[cache_key].src ELSE NoVal
        data == Decode(f.annot, cached_value)
        serialized == Serialize(o1.val)
        get(val, from, res) == CallRec("get", cache_key, 0, val, from, res)
        func(o) == CallRec("producer", <<>>, 0, o.val, NoVal,
                           IF o.kind = "return" THEN "return" ELSE o.err)
        setex(res) == CallRec("set", cache_key, ttl, serialized, o1.val, res)
    IN  IF rg # "ok"
        THEN Run(<<get(NoVal, NoVal, rg), func(o1)>>, s, o1)
        ELSE IF present /\ cached_value.shape # "empty"
        THEN IF data.ok
             THEN Run(<<get(cached_value, src, "hit")>>, s, ReturnOf(data.val))
             ELSE Run(<<get(cached_value, src, "hit"), func(o1)>>, s, o1)
        ELSE IF o1.kind # "return"
        THEN Run(<<get(NoVal, NoVal, "miss"), func(o1), func(o2)>>, s, o2)
        ELSE IF rs = "ok"
        THEN Run(<<get(NoVal, NoVal, "miss"), func(o1), setex(rs)>>,
                 Setex(s, cache_key, ttl, serialized, o1.val), o1)
        ELSE Run(<<get(NoVal, NoVal, "miss"), func(o1), setex(rs), func(o2)>>, s, o2)

\* async_wrapper from its call to its return: the steps of an execute taken one
\* after the other on the same inputs
async_wrapper(f, form, s, rg, rs, o1, o2) ==
    LET m0 == [IdleTask EXCEPT !.pc = "get", !.op = "execute", !.f = f.name,
                               !.item = ItemOf(form), !.key = KeyOf(f, form),
                               !.ttl = EffectiveTtl(f.ttl)]
        m1 == GetStep(m0, s, rg)
        m2 == IF m1.pc = "produce" THEN ProduceStep(m1, o1) ELSE m1
        m3 == IF m2.pc = "set" THEN SetStep(m2, rs) ELSE m2
        s3 == IF m2.pc = "set" /\ rs = "ok"
              THEN Setex(s, m2.key, m2.ttl, Serialize(m2.result), m2.result)
              ELSE s
        o == IF m1.pc = "produce" THEN o2 ELSE o1
        m4 == IF m3.pc = "fallback" THEN FallbackStep(m3, o) ELSE m3
    IN  Run(m4.calls, s3, m4.outcome)

\* what a call of the function can do, whatever the row is at that moment
WrapperOutcomes(f) ==
    {RaiseOf("DatabaseException"), RaiseOf("NotFoundException")}
    \cup {ReturnOf(Returned(f, v)) : v \in 1..MaxVer}

\* the database before the call: empty, or one entry under the call's key, left
\* by another writer or by an earlier call of the function
WrapperStores(f, form) ==
    {<<>>}
    \cup {(KeyOf(f, form) :> [val |-> b, exp |-> REDIS_TTL, at |-> 0, src |-> NoVal]) :
             b \in ForeignPayloads}
    \cup {(KeyOf(f, form) :> [val |-> Serialize(Returned(f, v)), exp |-> REDIS_TTL,
                              at |-> 0, src |-> Returned(f, v)]) : v \in 1..MaxVer}

WrapperCall(f, form, s, rg, rs, o1, o2) ==
    [fn |-> "wrappers", f |-> f, form |-> form, s |-> s, rg |-> rg, rs |-> rs,
     o1 |-> o1, o2 |-> o2, sync |-> NoRun, async |-> NoRun]

InitWrappers ==
    /\ store = <<>>
    /\ now = 0
    /\ redis_up = TRUE
    /\ db = [exists |-> TRUE, ver |-> 1, at |-> 0]
    /\ task = [t \in Tasks |-> IdleTask]
    /\ \E f \in Funcs : \E form \in f.forms : \E s \in WrapperStores(f, form) :
          \E rg \in {"ok"} \cup BackendErrors, rs \in {"ok"} \cup BackendErrors :
             \E o1 \in WrapperOutcomes(f), o2 \in WrapperOutcomes(f) :
                pure = WrapperCall(f, form, s, rg, rs, o1, o2)

RunSync ==
    /\ pure.sync = NoRun
    /\ pure' = [pure EXCEPT !.sync = sync_wrapper(pure.f, pure.form, pure.s, pure.rg,
                                                  pure.rs, pure.o1, pure.o2)]
    /\ UNCHANGED <<store, now, redis_up, db, task>>

RunAsync ==
    /\ pure.async = NoRun
    /\ pure' = [pure EXCEPT !.async = async_wrapper(pure.f, pure.form, pure.s, pure.rg,
                                                    pure.rs, pure.o1, pure.o2)]
    /\ UNCHANGED <<store, now, redis_up, db, task>>

NextWrappers == RunSync \/ RunAsync

SpecWrappers == InitWrappers /\ [][NextWrappers]_vars

----------------------------------------------------------------------------
(* clear_all_cache *)

\* fault: only the entries of the "item" prefix are removed
Flushdb_item_only(s) == [k \in {x \in DOMAIN s : x[1] # "item"} |-> s[k]]

\* FLUSHDB: every key of the database is removed
Flushdb(s) == [k \in {} |-> s[k]]

\* redis_client.flushdb(); errors are logged, not raised
FlushStep(me, r) ==
    [me EXCEPT !.pc = "done", !.op = "clear_all_cache",
               !.calls = Append(@, CallRec("flushdb", <<>>, 0, NoVal, NoVal, r)),
               !.outcome = ReturnOf(NoVal)]

\* clear_all_cache() is synchronous: call, flushdb and return are one step
ClearAllCache(t) ==
    /\ task[t].pc = "idle"
    /\ \E r \in BackendResults :
          /\ task' = [task EXCEPT ![t] = FlushStep(IdleTask, r)]
          /\ store' = IF r = "ok" THEN Flushdb(store) ELSE store
    /\ UNCHANGED <<now, redis_up, db, pure>>

NextFlush ==
    \/ \E t \in Tasks, f \in Funcs : \E form \in f.forms : Execute(t, f, form)
    \/ \E t \in Tasks : Get(t)
    \/ \E t \in Tasks : Produce(t)
    \/ \E t \in Tasks : Set(t)
    \/ \E t \in Tasks : Fallback(t)
    \/ \E t \in Tasks : Return(t)
    \/ \E t \in Tasks : ClearAllCache(t)
    \/ BackendDown
    \/ BackendUp

SpecFlush == InitStored /\ [][NextFlush]_vars

----------------------------------------------------------------------------
(* One item read and changed under several identifier strings *)

\* path parameters the routes accept for the one row: item_id is a str
AliasIds == {"42", "042"}

GetItemForm(id) == [args |-> <<Self, StrArg(id)>>, kwargs |-> <<>>]

NextAlias ==
    \/ \E t \in Tasks, id \in AliasIds : Execute(t, get_item, GetItemForm(id))
    \/ \E t \in Tasks : Get(t)
    \/ \E t \in Tasks : Produce(t)
    \/ \E t \in Tasks : Set(t)
    \/ \E t \in Tasks : Fallback(t)
    \/ \E t \in Tasks : Return(t)
    \/ \E t \in Tasks, id \in AliasIds : UpdateItem(t, id)
    \/ \E t \in Tasks, id \in AliasIds : DeleteItem(t, id)
    \/ \E t \in Tasks : Keys(t)
    \/ \E t \in Tasks : Delete(t)
    \/ Tick
    \/ BackendDown
    \/ BackendUp

SpecAlias == Init /\ [][NextAlias]_vars

----------------------------------------------------------------------------
(* cache_health_check and async_cache_health_check *)

HealthTtl == 10

\* test_key of each of the two functions
HealthKeys ==
    [cache_health_check |-> <<"health", Colon, "check">>,
     async_cache_health_check |-> <<"health", Colon, "check", Colon, "async">>]
HealthOps == DOMAIN HealthKeys

\* test_value and json.dumps(test_value)
TestValue == Val("dict", "health", NoData, "ok", "-")
SentinelBytes == json_dumps(TestValue)

\* the returned pair (healthy, message); a message made of a fixed text and the
\* text of an exception keeps the two apart, the exception's text in "of"
HealthResult(healthy, message, text) ==
    ReturnOf(Val("tuple", text, NoData, IF healthy THEN "True" ELSE "False", message))

\* str(e) of the error a backend call raised
ErrText(r) == r

\* the except clauses of the health check
HealthFailure(r) ==
    IF r = "RedisError"
    THEN HealthResult(FALSE, "Redis error: ", ErrText(r))
    ELSE HealthResult(FALSE, "Unexpected error: ", ErrText(r))

HealthCheck(t, op) ==
    /\ task[t].pc = "idle"
    /\ task' = [task EXCEPT ![t] =
                  [IdleTask EXCEPT !.pc = "health_set", !.op = op,
                                   !.key = HealthKeys[op], !.ttl = HealthTtl]]
    /\ UNCHANGED <<store, now, redis_up, db, pure>>

\* fault: only redis.RedisError is caught
HealthSetStep_uncaught(me, r) ==
    IF r = "ok"
    THEN [me EXCEPT !.pc = "health_get",
                    !.calls = Append(@, CallRec("set", me.key, me.ttl, SentinelBytes,
                                                TestValue, r))]
    ELSE [me EXCEPT !.pc = "done",
                    !.calls = Append(@, CallRec("set", me.key, me.ttl, SentinelBytes,
                                                TestValue, r)),
                    !.outcome = IF r = "RedisError" THEN HealthFailure(r) ELSE RaiseOf(r)]

\* redis_client.setex(test_key, 10, json.dumps(test_value))
HealthSetStep(me, r) ==
    IF r = "ok"
    THEN [me EXCEPT !.pc = "health_get",
                    !.calls = Append(@, CallRec("set", me.key, me.ttl, SentinelBytes,
                                                TestValue, r))]
    ELSE [me EXCEPT !.pc = "done",
                    !.calls = Append(@, CallRec("set", me.key, me.ttl, SentinelBytes,
                                                TestValue, r)),
                    !.outcome = HealthFailure(r)]

\* fault: the probe's write replaces the whole contents of the database
HealthSet_replaces_all(t) ==
    /\ task[t].pc = "health_set"
    /\ \E r \in BackendResults :
          /\ task' = [task EXCEPT ![t] = HealthSetStep(task[t], r)]
          /\ store' = IF r = "ok"
                      THEN Setex(<<>>, task[t].key, task[t].ttl, SentinelBytes, TestValue)
                      ELSE store
    /\ UNCHANGED <<now, redis_up, db, pure>>

HealthSet(t) ==
    /\ task[t].pc = "health_set"
    /\ \E r \in BackendResults :
          /\ task' = [task EXCEPT ![t] = HealthSetStep(task[t], r)]
          /\ store' = IF r = "ok"
                      THEN Setex(store, task[t].key, task[t].ttl, SentinelBytes, TestValue)
                      ELSE store
    /\ UNCHANGED <<now, redis_up, db, pure>>

\* result = redis_client.get(test_key); if result: ...
HealthGetStep(me, s, r) ==
    LET present == me.key \in DOMAIN s
        read == IF present THEN s[me.key].val ELSE NoVal
        src == IF present THEN s[me.key].src ELSE NoVal
    IN  [me EXCEPT !.pc = "done",
                   !.calls = Append(@, CallRec("get", me.key, 0, read, src,
                                               IF r # "ok" THEN r
                                               ELSE IF present THEN "hit" ELSE "miss")),
                   !.outcome = IF r # "ok" THEN HealthFailure(r)
                               ELSE IF present /\ read.shape # "empty"
                               THEN HealthResult(TRUE, "Cache is healthy", "-")
                               ELSE HealthResult(FALSE, "Cache set succeeded but get failed",
                                                 "-")]

HealthGet(t) ==
    /\ task[t].pc = "health_get"
    /\ \E r \in BackendResults :
          task' = [task EXCEPT ![t] = HealthGetStep(task[t], store, r)]
    /\ UNCHANGED <<store, now, redis_up, db, pure>>

\* another client of the same Redis database writes a payload under a key
ForeignSet(k, b) ==
    /\ redis_up
    /\ store' = (k :> [val |-> b, exp |-> now + REDIS_TTL, at |-> now, src |-> NoVal]) @@ store
    /\ UNCHANGED <<now, redis_up, db, task, pure>>

NextHealth ==
    \/ \E t \in Tasks, op \in HealthOps : HealthCheck(t, op)
    \/ \E t \in Tasks : HealthSet(t)
    \/ \E t \in Tasks : HealthGet(t)
    \/ \E t \in Tasks : Return(t)
    \/ \E op \in HealthOps, b \in ForeignPayloads : ForeignSet(HealthKeys[op], b)
    \/ Tick
    \/ BackendDown
    \/ BackendUp

SpecHealth == Init /\ [][NextHealth]_vars

\* the health checks run among executes, over a database that already holds an
\* entry under a function's key
NextProbe ==
    \/ \E t \in Tasks, op \in HealthOps : HealthCheck(t, op)
    \/ \E t \in Tasks : HealthSet(t)
    \/ \E t \in Tasks : HealthGet(t)
    \/ \E t \in Tasks, f \in Funcs : \E form \in f.forms : Execute(t, f, form)
    \/ \E t \in Tasks : Get(t)
    \/ \E t \in Tasks : Produce(t)
    \/ \E t \in Tasks : Set(t)
    \/ \E t \in Tasks : Fallback(t)
    \/ \E t \in Tasks : Return(t)
    \/ BackendDown
    \/ BackendUp

SpecProbe == InitStored /\ [][NextProbe]_vars

----------------------------------------------------------------------------
(* The /health endpoint: check_database_health, check_redis_cache_health and
   the aggregate answer *)

DependencyHealth(name, status, details, error) ==
    [name |-> name, status |-> status, details |-> details, error |-> error]

\* the text of a message: its fixed part and the exception's text it holds
MessageOf(v) == [message |-> v.message, text |-> v.of]
NoMessage == [message |-> "None", text |-> "-"]

\* what SELECT 1 does: succeeds, or raises an error of this text
DatabaseResults == {"ok", "OperationalError"}

\* check_database_health: healthy when the query ran, else unhealthy with str(e)
check_database_health(r) ==
    IF r = "ok"
    THEN DependencyHealth("database", "healthy", NoMessage, NoMessage)
    ELSE DependencyHealth("database", "unhealthy", NoMessage,
                          [message |-> "", text |-> r])

\* check_redis_cache_health: the probe's pair as a dependency; an exception of
\* the probe would be caught here
check_redis_cache_health(o) ==
    IF o.kind = "raise"
    THEN DependencyHealth("redis_cache", "unhealthy", NoMessage,
                          [message |-> "", text |-> o.err])
    ELSE IF o.val.status = "True"
    THEN DependencyHealth("redis_cache", "healthy", MessageOf(o.val), NoMessage)
    ELSE DependencyHealth("redis_cache", "unhealthy", NoMessage, MessageOf(o.val))

\* overall_status of the dependency checks
OverallStatus(deps) ==
    IF \E d \in deps : d.status = "unhealthy" THEN "unhealthy"
    ELSE IF \E d \in deps : d.status = "degraded" THEN "degraded"
    ELSE "healthy"

\* response.model_dump(): a dict that holds the datetime objects of timestamp
\* and last_checked (ts = "native")
model_dump(overall) == Val("dict", "health", [id |-> 0, ts |-> "native"], overall, "-")

\* the answer to the client: the response model encoded with 200, or the
\* HTTPException rendered as JSON({"detail": detail}) with its status code; a
\* detail that json.dumps cannot encode makes the rendering fail, which the
\* server answers with 500
Answer(code, overall) == [code |-> code, overall |-> overall]
HealthAnswer(overall) ==
    IF overall # "unhealthy" THEN Answer(200, overall)
    ELSE IF JsonNative(model_dump(overall)) THEN Answer(503, overall)
    ELSE Answer(500, "-")

HealthCall(r) ==
    [fn |-> "health_check", database |-> r, step |-> "gather",
     probe |-> NoOutcome, deps |-> {}, answer |-> Answer(0, "-")]

\* GET /health: both checks start; the cache probe runs its set and its get
HealthEndpoint(t) ==
    /\ task[t].pc = "idle"
    /\ IF pure.fn = "-" THEN TRUE ELSE pure.step = "answered"
    /\ \E r \in DatabaseResults : pure' = HealthCall(r)
    /\ task' = [task EXCEPT ![t] =
                  [IdleTask EXCEPT !.pc = "health_set",
                                   !.op = "async_cache_health_check",
                                   !.key = HealthKeys["async_cache_health_check"],
                                   !.ttl = HealthTtl]]
    /\ UNCHANGED <<store, now, redis_up, db>>

\* both checks are back: overall status, response, status code
HealthRespond(t) ==
    /\ task[t].pc = "done"
    /\ pure.fn = "health_check" /\ pure.step = "gather"
    /\ LET deps == {check_database_health(pure.database),
                    check_redis_cache_health(task[t].outcome)}
       IN  pure' = [pure EXCEPT !.step = "answered", !.probe = task[t].outcome,
                                !.deps = deps,
                                !.answer = HealthAnswer(OverallStatus(deps))]
    /\ task' = [task EXCEPT ![t] = IdleTask]
    /\ UNCHANGED <<store, now, redis_up, db>>

NextAggregate ==
    \/ \E t \in Tasks : HealthEndpoint(t)
    \/ \E t \in Tasks : HealthSet(t)
    \/ \E t \in Tasks : HealthGet(t)
    \/ \E t \in Tasks : HealthRespond(t)
    \/ \E b \in ForeignPayloads : ForeignSet(HealthKeys["async_cache_health_check"], b)
    \/ Tick
    \/ BackendDown
    \/ BackendUp

SpecAggregate == Init /\ [][NextAggregate]_vars

----------------------------------------------------------------------------
(* Reading a task's call trace *)

CallsOf(me, name) == {i \in 1..Len(me.calls) : me.calls[i].call = name}
BackendCalls(me) ==
    {i \in 1..Len(me.calls) : me.calls[i].call \in {"get", "set", "keys", "delete"}}
Raised(c) == c.res \in BackendErrors
OutcomeOfCall(c) == IF c.res = "return" THEN ReturnOf(c.val) ELSE RaiseOf(c.res)
Finished(me, op) == me.pc = "done" /\ me.op = op
\* the ttl the caller of the decorator supplied, REDIS_TTL when it supplied none
SuppliedTtl(f) == IF f.ttl = NoneTtl THEN REDIS_TTL ELSE f.ttl

----------------------------------------------------------------------------
(* Claims *)

\* C1: an execute whose get finds a live entry written by an earlier execute of
\* the same operation and arguments does not invoke the producer and returns the
\* decoded value of that entry.
C1_HitSuppressesProducer ==
    \A t \in Tasks :
        LET me == task[t]
        IN  (Finished(me, "execute") /\ me.calls[1].res = "hit")
            => /\ CallsOf(me, "producer") = {}
               /\ me.outcome = ReturnOf(Decode(Fn(me.f).annot, me.calls[1].val).val)

\* C2: when every backend call of an operation raised, an execute ends with the
\* outcome of one producer invocation (its result when it returned one) and never
\* with a backend error, and an invalidate returns normally.
C2_FailOpenUnderOutage ==
    \A t \in Tasks :
        LET me == task[t]
        IN  (me.pc = "done" /\ BackendCalls(me) # {}
                /\ \A i \in BackendCalls(me) : Raised(me.calls[i]))
            => /\ me.op = "execute" =>
                    /\ Len(me.calls) = 2
                    /\ me.calls[2].call = "producer"
                    /\ me.outcome = OutcomeOfCall(me.calls[2])
                    /\ me.outcome.err \notin BackendErrors
               /\ me.op = "invalidate" => me.outcome = ReturnOf(NoVal)

C2_Witness ==
    \E t \in Tasks :
        /\ Finished(task[t], "execute")
        /\ Raised(task[t].calls[1])
        /\ task[t].outcome.kind = "return"

\* C3: whenever a producer invocation of an execute raised, the execute ends by
\* raising that same error.
C3_ProducerFailurePropagates ==
    \A t \in Tasks :
        LET me == task[t]
        IN  Finished(me, "execute")
            => \A i \in CallsOf(me, "producer") :
                   me.calls[i].res # "return" => me.outcome = RaiseOf(me.calls[i].res)

\* C4: when the producer returned a result and the set that follows raised, the
\* execute returns that result and raises nothing.
C4_SetFailureAbsorbed ==
    \A t \in Tasks :
        LET me == task[t]
        IN  Finished(me, "execute")
            => \A i \in CallsOf(me, "set") :
                   Raised(me.calls[i]) => me.outcome = ReturnOf(me.calls[i].src)

\* C5: after a successful invalidate(P, "*") no key the Key Builder makes for an
\* operation of prefix P is in the backend.
C5_InvalidateCoversPrefix ==
    \A t \in Tasks :
        LET me == task[t]
        IN  (Finished(me, "invalidate") /\ \A i \in BackendCalls(me) : me.calls[i].res = "ok")
            => \A f \in Funcs :
                   EffectivePrefix(f.prefix, f.qualname) = me.key
                   => \A form \in f.forms : KeyOf(f, form) \notin DOMAIN store

\* C6: a successful invalidate(P, "*") deletes no key of an operation whose
\* prefix differs from P.
C6_InvalidateKeepsOtherPrefixes ==
    \A t \in Tasks :
        LET me == task[t]
        IN  (Finished(me, "invalidate") /\ me.calls[Len(me.calls)].call = "delete"
                /\ me.calls[Len(me.calls)].res = "ok")
            => \A f \in Funcs :
                   EffectivePrefix(f.prefix, f.qualname) # me.key
                   => \A form \in f.forms : KeyOf(f, form) \notin me.keys

\* C7: an execute makes exactly one backend get and at most one set, no keys and
\* no delete call; after a hit it makes no set; and the only step of an execute
\* that changes the backend is its set.
C7_Traffic ==
    \A t \in Tasks :
        LET me == task[t]
        IN  me.op = "execute"
            => /\ Cardinality(CallsOf(me, "get")) = (IF me.pc = "get" THEN 0 ELSE 1)
               /\ Cardinality(CallsOf(me, "set")) <= 1
               /\ CallsOf(me, "keys") = {} /\ CallsOf(me, "delete") = {}
               /\ (me.pc # "get" /\ me.calls[1].res = "hit") => CallsOf(me, "set") = {}

C7_OnlySetWrites ==
    \A t \in Tasks :
        (task[t].op = "execute" /\ task'[t] # task[t] /\ task[t].pc # "set")
        => store' = store

C8_MissPath ==
    \A t \in Tasks :
        LET me == task[t]
        IN  (Finished(me, "execute") /\ me.calls[1].res = "miss"
                /\ me.calls[2].res = "return"
                /\ \A i \in BackendCalls(me) : ~Raised(me.calls[i]))
            => /\ Len(me.calls) = 3
               /\ me.calls[2].call = "producer"
               /\ me.calls[3] = CallRec("set", me.key, SuppliedTtl(Fn(me.f)),
                                        Serialize(me.calls[2].val), me.calls[2].val, "ok")
               /\ me.outcome = ReturnOf(me.calls[2].val)
               /\ (me.f = "get_item" /\ me.item = "42")
                      => me.key = <<"item", Colon, "42">> /\ me.calls[3].ttl = 300

\* C9 as stated: after a get failure whose producer call returned, a set of the
\* derived key is attempted.
C9_GetFailureLikeMiss ==
    \A t \in Tasks :
        LET me == task[t]
        IN  (Finished(me, "execute") /\ Raised(me.calls[1])
                /\ \E i \in CallsOf(me, "producer") : me.calls[i].res = "return")
            => CallsOf(me, "set") # {}

\* C9 as amended: after a get failure the producer is invoked exactly once, the
\* execute ends with that invocation's outcome, and no set is attempted.
C9_GetFailureBypassesCache ==
    \A t \in Tasks :
        LET me == task[t]
        IN  (me.op = "execute" /\ me.pc # "get" /\ Raised(me.calls[1]))
            => \/ me.pc = "fallback" /\ Len(me.calls) = 1
               \/ /\ me.pc = "done"
                  /\ Len(me.calls) = 2
                  /\ me.calls[2].call = "producer"
                  /\ me.outcome = OutcomeOfCall(me.calls[2])

C9_Witness ==
    \E t \in Tasks :
        /\ Finished(task[t], "execute")
        /\ Raised(task[t].calls[1])
        /\ task[t].outcome.kind = "return"
        /\ redis_up

\* C10: the value an execute returns on a hit equals the value the producer
\* returned when the entry was populated.
C10_Transparency ==
    \A t \in Tasks :
        LET me == task[t]
        IN  (Finished(me, "execute") /\ me.calls[1].res = "hit" /\ Len(me.calls) = 1)
            => me.outcome = ReturnOf(me.calls[1].src)

\* C11: a failure to decode the stored payload or to encode the producer's result
\* never ends an execute: after a hit whose payload cannot be parsed or rebuilt
\* the execute ends with the outcome of one producer invocation, after a set that
\* succeeded it returns the producer's result however that result was encoded, and
\* the only errors an execute raises are the producer's own.
C11_SerializationNeverSurfaces ==
    \A t \in DOMAIN task :
        LET me == task[t]
        IN  Finished(me, "execute")
            => /\ (me.calls[1].res = "hit" /\ ~Decode(Fn(me.f).annot, me.calls[1].val).ok)
                     => /\ Len(me.calls) = 2
                        /\ me.calls[2].call = "producer"
                        /\ me.outcome = OutcomeOfCall(me.calls[2])
               /\ \A i \in CallsOf(me, "set") :
                     me.calls[i].res = "ok" => me.outcome = ReturnOf(me.calls[i].src)
               /\ me.outcome.kind = "raise"
                     => /\ me.calls[Len(me.calls)].call = "producer"
                        /\ me.outcome.err = me.calls[Len(me.calls)].res

C11_Witness ==
    \E t \in DOMAIN task :
        /\ Finished(task[t], "execute")
        /\ task[t].calls[1].res = "hit"
        /\ task[t].calls[1].val.shape = "garbage"
        /\ task[t].outcome.kind = "return"

ServiceOps == {"update_item", "delete_item"}

C12_Committed(me) ==
    IF me.op = "update_item"
    THEN db.ver >= me.result.data.id /\ me.result.status = "success"
    ELSE ~db.exists

C12_CallsFollowCommit ==
    \A t \in DOMAIN task :
        LET me == task[t]
        IN  (me.op \in ServiceOps /\ (me.pc \in {"keys", "delete"} \/ me.calls # <<>>))
            => C12_Committed(me) /\ db.at <= now

C12_StartsOnlyOnCommit ==
    \A t \in DOMAIN task :
        (task[t].pc = "idle" /\ task'[t].op \in ServiceOps)
        => IF Found(db, task'[t].item) /\ db' # db
           THEN task'[t].pc = "keys" /\ task'[t].calls = <<>>
           ELSE /\ db' = db
                /\ task'[t].pc = "done"
                /\ task'[t].calls = <<>>
                /\ task'[t].outcome.kind = "raise"

\* C12: update_item and delete_item start their invalidation in the step in which
\* the repository commits the mutation, and in no other: when the repository
\* reports not-found or fails they end without any backend call; every backend
\* call of the two operations is made with the mutation already committed.
C12_InvalidateAfterCommit == [](C12_CallsFollowCommit) /\ [][C12_StartsOnlyOnCommit]_vars

C12_Witness ==
    \E t \in DOMAIN task :
        /\ Finished(task[t], "update_item")
        /\ Len(task[t].calls) = 2
        /\ task[t].calls[2].res = "ok"
        /\ db.ver = task[t].result.data.id

\* C17: once the repository has committed, update_item and delete_item end the
\* same way whether the backend calls of the invalidation succeeded or raised:
\* update_item returns its response, delete_item ends as it does after a
\* successful invalidation, no backend error is the outcome, and the row keeps
\* the committed mutation.
C17_InvalidationFailureUnreported ==
    \A t \in DOMAIN task :
        LET me == task[t]
        IN  (me.pc = "done" /\ me.op \in ServiceOps /\ me.calls # <<>>)
            => /\ me.outcome.err \notin BackendErrors
               /\ me.op = "update_item"
                     => me.outcome = ReturnOf(Response(ItemDict(me.result.data.id),
                                                       "success", "updated"))
               /\ me.op = "delete_item" => me.outcome = RaiseOf("AttributeError")
               /\ C12_Committed(me)

C17_Witness ==
    \E t \in DOMAIN task :
        /\ Finished(task[t], "update_item")
        /\ task[t].calls # <<>>
        /\ Raised(task[t].calls[Len(task[t].calls)])
        /\ task[t].outcome.kind = "return"
        /\ db.ver = task[t].outcome.val.data.id

C14_Ttls == {EffectiveTtl(f.ttl) : f \in Funcs}

C14_Finite ==
    /\ \A k \in DOMAIN store :
          /\ store[k].exp - store[k].at \in C14_Ttls
          /\ store[k].exp - store[k].at > 0
          /\ store[k].at <= now /\ now < store[k].exp
    /\ \A t \in DOMAIN task : \A i \in CallsOf(task[t], "set") :
          task[t].calls[i].ttl \in C14_Ttls /\ task[t].calls[i].ttl > 0

C14_NoExtension ==
    /\ \A k \in DOMAIN store' :
          (k \notin DOMAIN store \/ store'[k] # store[k])
          => \E t \in DOMAIN task :
                /\ task[t].pc = "set" /\ task[t].key = k /\ task'[t].pc = "done"
                /\ store'[k].at = now /\ store'[k].exp = now + task[t].ttl
    /\ \A t \in DOMAIN task :
          (task[t].pc = "get" /\ task'[t].pc # "get" /\ task'[t].calls[1].res = "hit")
          => /\ task[t].key \in DOMAIN store
             /\ now < store[task[t].key].exp
             /\ store' = store

C15_MissSetTrace(me) ==
    /\ Finished(me, "execute")
    /\ Len(me.calls) = 3
    /\ me.calls[1].res = "miss"
    /\ me.calls[2].res = "return"
    /\ me.calls[3].call = "set" /\ me.calls[3].res = "ok"

\* C15: no execute waits for another: whatever the other tasks are doing, on the
\* same key or not, the next step of an execute that is at its get, its producer
\* call, its set or its fallback can be taken at once.
C15_NeverBlocked ==
    \A t \in DOMAIN task :
        /\ task[t].pc = "get" => ENABLED Get(t)
        /\ task[t].pc = "produce" => ENABLED Produce(t)
        /\ task[t].pc = "set" => ENABLED Set(t)
        /\ task[t].pc = "fallback" => ENABLED Fallback(t)

\* two executes of one key that both missed, both invoked the producer and both
\* set, with no expiry and no invalidation that could have emptied the key between
C15_Witness ==
    \E t \in DOMAIN task, u \in DOMAIN task :
        /\ t # u
        /\ now = 0 /\ db.ver = 1
        /\ task[t].key = task[u].key
        /\ task[t].f = "get_item" /\ task[u].f = "get_item"
        /\ C15_MissSetTrace(task[t])
        /\ C15_MissSetTrace(task[u])

\* an entry whose producer result predates the row's last committed mutation
StaleEntry(e) == e.src.data.id < db.ver \/ ~db.exists

\* the step in which the get of task t is answered as a hit and the value returned
HitReturn(t) == task[t].pc = "get" /\ task'[t].pc = "done"

\* the entry under the key of task t was populated by the operation t executes
OwnEntry(t) ==
    LET e == store[task[t].key]
    IN  e.src = Returned(Fn(task[t].f), e.src.data.id)

\* C13 as stated: a hit returns a pre-mutation value of its operation no later than
\* the ttl after the mutation committed.
C13_StaleWithinTtlOfCommit ==
    [][\A t \in DOMAIN task :
          (HitReturn(t) /\ OwnEntry(t) /\ StaleEntry(store[task[t].key]))
          => now <= db.at + task[t].ttl]_vars

\* C13 as amended: a hit returns a pre-mutation value of its operation only before
\* w + ttl, w being the time the entry was set; that is within the ttl after the
\* commit when the entry was set no later than the commit.
C13_StaleWithinTtlOfSet ==
    [][\A t \in DOMAIN task :
          (HitReturn(t) /\ OwnEntry(t) /\ StaleEntry(store[task[t].key]))
          => LET e == store[task[t].key]
             IN  /\ now < e.at + task[t].ttl
                 /\ e.at <= db.at => now < db.at + task[t].ttl]_vars

\* a hit returned a pre-mutation value from an entry set later than the ttl after
\* the commit
C13_Witness ==
    \E t \in DOMAIN task :
        /\ Finished(task[t], "execute")
        /\ Len(task[t].calls) = 1 /\ task[t].calls[1].res = "hit"
        /\ task[t].key \in DOMAIN store
        /\ store[task[t].key].src = task[t].calls[1].src
        /\ task[t].outcome.val.data.id < db.ver
        /\ store[task[t].key].at > db.at + task[t].ttl

\* C16: nothing orders the set of an execute after the mutations of the row: the
\* set stores the result the producer returned even when the row has been
\* updated and the key invalidated since, and a hit returns what is stored.
C16_SetIgnoresCommit ==
    [][\A t \in DOMAIN task :
          /\ (task[t].pc = "set" /\ task'[t].pc = "done")
             => /\ task[t].key \in DOMAIN store'
                /\ store'[task[t].key].src = task[t].result
                /\ store'[task[t].key].val = Serialize(task[t].result)
          /\ HitReturn(t)
             => task'[t].outcome =
                    ReturnOf(Decode(Fn(task[t].f).annot, store[task[t].key].val).val)]_vars

\* an update committed and its invalidation of the key completed finding no entry,
\* an execute then set the result its producer had read before the commit, and a
\* later execute hit that entry and returned the pre-mutation value
C16_Witness ==
    \E t \in DOMAIN task, u \in DOMAIN task :
        /\ Finished(task[u], "update_item")
        /\ Len(task[u].calls) = 1 /\ task[u].calls[1].res = "ok"
        /\ GlobMatch(task[u].pattern, task[t].key)
        /\ Finished(task[t], "execute")
        /\ Len(task[t].calls) = 1 /\ task[t].calls[1].res = "hit"
        /\ task[t].outcome = ReturnOf(task[t].calls[1].src)
        /\ task[t].outcome.val.data.id < task[u].result.data.id

KeyInputs ==
    {KeyCall(p, a, kw, <<>>, FALSE) : p \in KeyPrefixes, a \in KeyArgs, kw \in KeyKwargs}

KeyFor(c) == create_cache_key(c.prefix, c.args, c.kwargs)

\* the scalar arguments of a call: the positional ones in order, the named ones
\* as a set of name and value
ScalarArgs(c) == SelectSeq(c.args, Scalar)
ScalarKwargs(c) == {c.kwargs[i] : i \in {j \in 1..Len(c.kwargs) : Scalar(c.kwargs[j].v)}}
NamedArgs(c) == {c.kwargs[i] : i \in 1..Len(c.kwargs)}

\* C18: the key of a call is the key of every call with the same prefix, the same
\* positional arguments and the same named arguments written in any order.
C18_KeyIgnoresKwargOrder ==
    pure.fn = "create_cache_key" /\ pure.done
    => \A c \in KeyInputs :
          (c.prefix = pure.prefix /\ c.args = pure.args /\ NamedArgs(c) = NamedArgs(pure))
          => KeyFor(c) = pure.key

C18_Witness ==
    /\ pure.fn = "create_cache_key" /\ pure.done
    /\ Len(pure.kwargs) = 2
    /\ Rank(pure.kwargs[1].k) > Rank(pure.kwargs[2].k)
    /\ Scalar(pure.kwargs[1].v) /\ Scalar(pure.kwargs[2].v)
    /\ pure.key = pure.prefix \o <<Colon, "item_id", Colon, "42", Colon, "lang", Colon, "42">>

\* C19: two calls that differ in their prefix, in their scalar positional
\* arguments (values in order) or in their scalar named arguments have different keys.
C19_KeysUnique ==
    pure.fn = "create_cache_key" /\ pure.done
    => \A c \in KeyInputs :
          (c.prefix # pure.prefix \/ ScalarArgs(c) # ScalarArgs(pure)
              \/ ScalarKwargs(c) # ScalarKwargs(pure))
          => KeyFor(c) # pure.key

\* C20: two calls with the same prefix and the same scalar arguments, whatever
\* their non-scalar arguments are, positional or named, have the same key.
C20_NonScalarsIgnored ==
    pure.fn = "create_cache_key" /\ pure.done
    => \A c \in KeyInputs :
          (c.prefix = pure.prefix /\ ScalarArgs(c) = ScalarArgs(pure)
              /\ ScalarKwargs(c) = ScalarKwargs(pure))
          => KeyFor(c) = pure.key

C20_Witness ==
    /\ pure.fn = "create_cache_key" /\ pure.done
    /\ pure.args = <<ListArg, StrArg("42")>>
    /\ pure.kwargs = <<[k |-> "lang", v |-> ListArg]>>
    /\ pure.key = KeyFor(KeyCall(pure.prefix, <<Self, StrArg("42")>>, <<>>, <<>>, FALSE))
    /\ pure.key = pure.prefix \o <<Colon, "42">>

\* the reference construction: the parts of a key, built without the Key Builder
RefPositional(c) == [i \in 1..Len(ScalarArgs(c)) |-> ScalarArgs(c)[i].s]

RefNamedOf(c, n) ==
    LET given == {kv \in ScalarKwargs(c) : kv.k = n}
    IN  IF given = {} THEN <<>>
        ELSE <<(<<n, Colon>> \o (CHOOSE kv \in given : TRUE).v.s)>>

RECURSIVE RefNamed(_, _)
RefNamed(c, i) ==
    IF i > Len(KwNames) THEN <<>>
    ELSE RefNamedOf(c, KwNames[i]) \o RefNamed(c, i + 1)

RECURSIVE RefJoin(_, _)
RefJoin(text, parts) ==
    IF parts = <<>> THEN text
    ELSE RefJoin(text \o <<Colon>> \o Head(parts), Tail(parts))

C22_TtlResolution ==
    \A t \in DOMAIN task :
        LET me == task[t]
        IN  me.op = "execute"
            => /\ me.ttl = SuppliedTtl(Fn(me.f))
               /\ \A i \in CallsOf(me, "set") : me.calls[i].ttl = SuppliedTtl(Fn(me.f))

\* the keys a pattern of the forms used selects: with a trailing "*" the keys that
\* begin with the text before it, without one the key equal to the pattern
C23_Selected(p, k) ==
    IF p[Len(p)] = Star
    THEN Len(k) >= Len(p) - 1 /\ SubSeq(k, 1, Len(p) - 1) = SubSeq(p, 1, Len(p) - 1)
    ELSE k = p

C23_Calls ==
    \A t \in DOMAIN task :
        LET me == task[t]
        IN  me.op \in {"invalidate"} \cup ServiceOps
            => /\ Cardinality(CallsOf(me, "keys")) <= 1
               /\ Cardinality(CallsOf(me, "delete")) <= 1
               /\ CallsOf(me, "get") = {} /\ CallsOf(me, "set") = {}
               /\ me.pattern # <<>>
                     => me.pattern = me.key \o <<Colon>>
                                     \o SubSeq(me.pattern, Len(me.key) + 2, Len(me.pattern))

C23_Steps ==
    \A t \in DOMAIN task :
        /\ (task[t].pc = "keys" /\ task'[t].pc # "keys")
           => LET sel == {k \in DOMAIN store : C23_Selected(task[t].pattern, k)}
              IN  /\ store' = store
                  /\ task'[t].calls[1].res = "ok"
                       => IF sel = {}
                          THEN task'[t].pc = "done" /\ Len(task'[t].calls) = 1
                          ELSE task'[t].pc = "delete" /\ task'[t].keys = sel
        /\ (task[t].pc = "delete" /\ task'[t].pc = "done" /\ task'[t].calls[2].res = "ok")
           => /\ DOMAIN store' = DOMAIN store \ task[t].keys
              /\ \A k \in DOMAIN store' : store'[k] = store[k]

\* C23: a successful invalidation lists exactly the keys its pattern prefix:pattern
\* selects, changing nothing; when none is selected it ends without a delete; its
\* one delete removes the listed keys and leaves every other entry as it was.
C23_InvalidatorEffect == [](C23_Calls) /\ [][C23_Steps]_vars

C23_Witness ==
    \E t \in DOMAIN task :
        /\ Finished(task[t], "invalidate")
        /\ Len(task[t].calls) = 2 /\ task[t].calls[2].res = "ok"
        /\ Cardinality(task[t].keys) >= 2
        /\ DOMAIN store # {}
        /\ DOMAIN store \cap task[t].keys = {}

\* the return annotation that names the shape of a result
ShapeOf(r) == IF r.shape \in {"StandardResponse", "Item", "dict"} THEN r.shape ELSE "-"

\* the canonical-dictionary form of a value that has one
Canonical(v) == IF has_to_dict(v) THEN to_dict(v) ELSE v

\* C24: for every result that has a canonical-dictionary form json.dumps accepts,
\* decoding the stored encoding under the result's own return annotation succeeds
\* and gives a value whose canonical-dictionary form is that of the result.
C24_RoundTrip ==
    (pure.fn = "codec" /\ pure.step = "decoded" /\ pure.annot = ShapeOf(pure.result)
        /\ has_to_dict(pure.result) /\ JsonNative(to_dict(pure.result)))
    => /\ pure.decoded.ok
       /\ Canonical(pure.decoded.val) = to_dict(pure.result)

\* the value the hit path is to return for a parsed payload
C25_Expected(annot, parsed) ==
    IF annot = "StandardResponse"
    THEN IF parsed.shape = "str"
         THEN Response(Wrap("response", parsed), "success", PyNone)
         ELSE IF parsed.shape # "dict"
         THEN Response(Wrap("cached_value", parsed), "success", PyNone)
         ELSE IF parsed.of = "response"
         THEN Response(parsed.data, parsed.status, parsed.message)
         ELSE Response(NoData, "success", PyNone)
    ELSE parsed

\* C25: a hit of a function annotated StandardResponse returns, for a stored JSON
\* string, a response whose data is {"response": s}, for a stored JSON value that
\* is neither string nor object a response whose data is {"cached_value": v}, and
\* for a stored object the response built from its fields; a hit of a function
\* of any other annotation returns the parsed value as it is; no producer is called.
C25_DecodeFallbacks ==
    \A t \in DOMAIN task :
        LET me == task[t]
            parsed == json_loads(me.calls[1].val)
        IN  (Finished(me, "execute") /\ me.calls[1].res = "hit" /\ parsed.ok)
            => /\ Len(me.calls) = 1
               /\ me.outcome = ReturnOf(C25_Expected(Fn(me.f).annot, parsed.val))

Healthy(o) == o.kind = "return" /\ o.val.status = "True"

\* C26: a health check in which a backend call raised returns, and does not
\* raise: it returns unhealthy with a message that holds the text of the error.
C26_HealthNeverRaises ==
    \A t \in DOMAIN task :
        LET me == task[t]
        IN  (me.pc = "done" /\ me.op \in HealthOps)
            => /\ me.outcome.kind = "return"
               /\ \A i \in BackendCalls(me) :
                     Raised(me.calls[i])
                     => /\ ~Healthy(me.outcome)
                        /\ me.outcome.val.of = me.calls[i].res

C26_Witness ==
    \E t \in DOMAIN task :
        /\ Finished(task[t], "async_cache_health_check")
        /\ Len(task[t].calls) = 2
        /\ task[t].calls[2].res = "Exception"
        /\ task[t].outcome = HealthResult(FALSE, "Unexpected error: ", "Exception")

\* C27: a health check returns healthy only when the value it read back under the
\* sentinel key is the value it wrote.
C27_HealthVerifiesValue ==
    \A t \in DOMAIN task :
        LET me == task[t]
        IN  (me.pc = "done" /\ me.op \in HealthOps /\ Healthy(me.outcome))
            => /\ Len(me.calls) = 2
               /\ me.calls[2].res = "hit"
               /\ me.calls[2].val = me.calls[1].val

\* C28: an execute calls its producer at most once, whatever path it takes.
C28_ProducerAtMostOnce ==
    \A t \in DOMAIN task :
        task[t].op = "execute" => Cardinality(CallsOf(task[t], "producer")) <= 1

\* the mutation committed and every call of its invalidation succeeded
C29_Evicted(me) ==
    /\ me.pc = "done"
    /\ me.op \in ServiceOps
    /\ me.pattern # <<>>
    /\ \A i \in BackendCalls(me) : me.calls[i].res = "ok"

\* C29: when update_item or delete_item has committed for an item and its
\* invalidation has succeeded, the backend holds no entry of get_item under any
\* identifier string that the repository resolves to that item.
C29_MutationEvictsEveryCopy ==
    \A t \in DOMAIN task :
        C29_Evicted(task[t])
        => \A id \in AliasIds :
               IntOf(id) = IntOf(task[t].item)
               => KeyOf(get_item, GetItemForm(id)) \notin DOMAIN store

C31_PopulationFollowsProduction ==
    \A t \in DOMAIN task :
        LET me == task[t]
        IN  (/\ Finished(me, "execute")
             /\ CallsOf(me, "producer") # {}
             /\ me.outcome.kind = "return"
             /\ \A i \in BackendCalls(me) : ~Raised(me.calls[i]))
            => /\ me.key \in DOMAIN store
               /\ store[me.key].val = Serialize(me.outcome.val)

\* the documents null, 0, false, "" and []
C32_ZeroPayloads == {b \in ForeignPayloads : b.shape = "null" \/ b.of = "zero"}

\* a get that the backend answered: the key absent or its bytes empty is a miss
\* that leads to the producer, any other bytes are a hit on those bytes
C32_GetStep ==
    \A t \in DOMAIN task :
        (task[t].pc = "get" /\ task'[t].pc # "get" /\ redis_up)
        => LET got == task'[t].calls[Len(task'[t].calls)]
               present == task[t].key \in DOMAIN store
           IN  IF present /\ store[task[t].key].val.shape # "empty"
               THEN /\ got.res = "hit"
                    /\ got.val = store[task[t].key].val
                    /\ task'[t].pc \in {"done", "fallback"}
               ELSE /\ got.res = "miss"
                    /\ task'[t].pc = "produce"

C32_MissInvokesProducer ==
    \A t \in DOMAIN task :
        LET me == task[t]
        IN  (me.op = "execute" /\ me.calls # <<>> /\ me.calls[1].res = "miss")
            => IF Len(me.calls) = 1
               THEN me.pc = "produce"
               ELSE me.calls[2].call = "producer"

\* C32: the wrapper takes the hit path exactly when the backend get returns
\* non-empty bytes, the encodings of null, 0, false, "" and [] included; on an
\* absent key or empty bytes it takes the miss path and invokes the producer.
C32_HitNeedsNonEmpty == [](C32_MissInvokesProducer) /\ [][C32_GetStep]_vars

C32_Witness ==
    \E t \in DOMAIN task :
        /\ Finished(task[t], "execute")
        /\ task[t].f = "get_user"
        /\ task[t].calls[1].res = "hit"
        /\ task[t].calls[1].val \in C32_ZeroPayloads
        /\ task[t].outcome.kind = "return"
        /\ CallsOf(task[t], "producer") = {}

\* C33: a step of an execute for key K removes no entry and leaves the entry of
\* every key other than K as it was.
C33_ExecuteWritesOwnKey ==
    [][\A t \in DOMAIN task :
          (task'[t] # task[t] /\ (task[t].op = "execute" \/ task'[t].op = "execute"))
          => LET K == IF task[t].op = "execute" THEN task[t].key ELSE task'[t].key
             IN  /\ DOMAIN store \subseteq DOMAIN store'
                 /\ \A k \in DOMAIN store' \ {K} :
                       k \in DOMAIN store /\ store'[k] = store[k]]_vars

C33_Witness ==
    \E t \in DOMAIN task :
        /\ Finished(task[t], "execute")
        /\ task[t].calls[Len(task[t].calls)].call = "set"
        /\ task[t].calls[Len(task[t].calls)].res = "ok"
        /\ task[t].key \in DOMAIN store
        /\ \E k \in DOMAIN store : k # task[t].key

\* an invalidate in which a backend call raised has returned, not raised
C34_Returns ==
    \A t \in DOMAIN task :
        LET me == task[t]
        IN  (Finished(me, "invalidate") /\ \E i \in BackendCalls(me) : Raised(me.calls[i]))
            => me.outcome = ReturnOf(NoVal)

\* the listing changes no entry, and neither does a delete that raised
C34_Steps ==
    \A t \in DOMAIN task :
        (task[t].pc \in {"keys", "delete"} /\ task'[t] # task[t])
        => LET did == task'[t].calls[Len(task'[t].calls)]
           IN  (did.call = "keys" \/ Raised(did)) => store' = store

\* C34: an invalidate whose key listing raised, or whose listing succeeded and
\* whose delete raised, returns without raising and has changed no entry.
C34_FailedInvalidationKeepsAll == [](C34_Returns) /\ [][C34_Steps]_vars

C34_Witness ==
    \E t \in DOMAIN task :
        /\ Finished(task[t], "invalidate")
        /\ Len(task[t].calls) = 2
        /\ task[t].calls[1].res = "ok"
        /\ Raised(task[t].calls[2])
        /\ task[t].outcome = ReturnOf(NoVal)
        /\ task[t].keys # {}
        /\ task[t].keys \subseteq DOMAIN store

\* C35: on the same function, arguments, database contents and outcomes of the
\* backend and producer calls, sync_wrapper and async_wrapper make the same calls
\* in the same order, leave the same database and return or raise the same.
C35_WrappersEquivalent ==
    (pure.fn = "wrappers" /\ pure.sync # NoRun /\ pure.async # NoRun)
    => pure.sync = pure.async

C35_Witness ==
    /\ pure.fn = "wrappers"
    /\ pure.sync # NoRun
    /\ pure.sync = pure.async
    /\ Len(pure.sync.calls) = 4
    /\ pure.sync.calls[3].res = "RedisError"
    /\ pure.sync.outcome.kind = "return"
    /\ pure.sync.outcome # pure.o1

\* a clear_all_cache has returned without raising; after a flushdb that
\* succeeded the database holds no entry, so no key of any function is present
C36_Flushed ==
    \A t \in DOMAIN task :
        LET me == task[t]
        IN  Finished(me, "clear_all_cache")
            => /\ me.outcome = ReturnOf(NoVal)
               /\ me.calls[1].res = "ok"
                     => /\ DOMAIN store = {}
                        /\ \A k \in FuncKeys : k \notin DOMAIN store

\* a clear_all_cache whose flushdb raised removes and changes no entry
C36_FailedFlush ==
    \A t \in DOMAIN task :
        (task[t].pc = "idle" /\ task'[t].op = "clear_all_cache"
         /\ Raised(task'[t].calls[1]))
        => store' = store

\* C36: after a clear_all_cache whose flush succeeded no entry of any prefix is
\* left; when the flush fails clear_all_cache still returns without raising and
\* the entries stay as they were.
C36_BackendWideFlush == [](C36_Flushed) /\ [][C36_FailedFlush]_vars

C36_Witness ==
    \E t \in DOMAIN task :
        /\ Finished(task[t], "clear_all_cache")
        /\ task[t].calls[1].res = "ok"
        /\ DOMAIN store = {}

\* C37: /health answers 503 with overall status unhealthy exactly when a
\* dependency check is unhealthy, and the cache probe's pair (false, message)
\* becomes the dependency status unhealthy with error = message, (true, message)
\* the status healthy.
C37_AggregateHealth ==
    (pure.fn = "health_check" /\ pure.step = "answered")
    => LET redis == CHOOSE d \in pure.deps : d.name = "redis_cache"
       IN  /\ (pure.answer.code = 503 /\ pure.answer.overall = "unhealthy")
                  <=> \E d \in pure.deps : d.status = "unhealthy"
           /\ Healthy(pure.probe) => redis.status = "healthy"
           /\ ~Healthy(pure.probe)
                 => redis.status = "unhealthy" /\ redis.error = MessageOf(pure.probe.val)

\* the calls of a health check: one set of the sentinel key with the 10-second
\* expiry, then at most one get of that key; the key is none an execute reads
C38_Calls ==
    \A t \in DOMAIN task :
        LET me == task[t]
        IN  me.op \in HealthOps
            => /\ me.key = HealthKeys[me.op]
               /\ me.key \notin FuncKeys
               /\ Len(me.calls) <= 2
               /\ \A i \in 1..Len(me.calls) :
                     /\ me.calls[i].key = me.key
                     /\ me.calls[i].call = IF i = 1 THEN "set" ELSE "get"
                     /\ i = 1 => me.calls[i].ttl = 10

\* a step of a health check leaves every entry but the sentinel's as it was, and
\* a sentinel entry it writes expires 10 seconds on
C38_Steps ==
    \A t \in DOMAIN task :
        (task'[t] # task[t] /\ (task[t].op \in HealthOps \/ task'[t].op \in HealthOps))
        => LET K == IF task[t].op \in HealthOps THEN task[t].key ELSE task'[t].key
           IN  /\ DOMAIN store \subseteq DOMAIN store'
               /\ \A k \in DOMAIN store' \ {K} :
                     k \in DOMAIN store /\ store'[k] = store[k]
               /\ store' # store
                     => /\ store'[K].val = SentinelBytes
                        /\ store'[K].exp = now + 10

\* C38: a health check writes and reads only its own fixed key, with a
\* 10-second expiry, and creates, changes or deletes no entry an execute reads.
C38_ProbeTouchesOnlySentinel == [](C38_Calls) /\ [][C38_Steps]_vars

C38_Witness ==
    \E t \in DOMAIN task :
        /\ Finished(task[t], "async_cache_health_check")
        /\ Healthy(task[t].outcome)
        /\ task[t].key \in DOMAIN store
        /\ store[task[t].key].exp = now + 10
        /\ \E k \in FuncKeys : k \in DOMAIN store /\ store[k].src # NoVal

====
